---- MODULE Spec2Model ----
(***************************************************************************)
(* A model of two pieces of the repository:                                *)
(*   - the write/scan workload of update_scan_delta_compact-test.cc        *)
(*     (InsertBaseData, RunThreads, UpdateRows, ScanRows, CurlWebPages     *)
(*     and the WaitForLastBatchAndFlush pipelining helper), and            *)
(*   - AsyncClientInitialiser of client/async_initializer.h.               *)
(* YBSession, Synchronizer, YBScanner, the tablet and its storage engine   *)
(* (Base Store, Delta Units, compaction) are collaborators whose code is   *)
(* outside the two files; they are modelled from the design document       *)
(* (sections 2, 3, 4.2, 4.4 and 4.6).                                      *)
(***************************************************************************)
EXTENDS Integers, Sequences, FiniteSets, TLC

\* ------------------------------------------------------------------ bounds
MaxRowCount == 3
MaxBatch == 2
MaxIteration == 2
ScanBatchRows == 2
NumCallers == 2
MaxAttempts == 3
MaxPartial == 2
MaxStoreKeys == 1
MaxDeltaUnits == 3

VARIABLES
  FLAGS_row_count,    \* --row_count (2000 by default), fixed by Init
  kSessionBatchSize,  \* the flush cadence (1000 in the source), fixed by Init
  main_pc,            \* position of the test body (InsertBaseData, RunThreads)
  ins_key,            \* loop variable of InsertBaseData
  upd_pc,             \* position of the update thread
  upd_key,            \* loop variable 'key' of UpdateRows
  iteration,          \* loop variable 'iteration' of UpdateRows
  scan_pc,            \* position of the scan thread
  scanner,            \* the YBScanner of the current pass of ScanRows
  rows,               \* the vector<YBRowResult> filled by NextBatch
  stop_latch,         \* CountDownLatch of RunThreads
  session,            \* per writer: the mutations buffered in its YBSession
  last_s,             \* per writer: its Synchronizer (latch count, status)
  ret,                \* per writer: Status returned by the last call
  inflight,           \* flushes issued and not yet acknowledged
  tablet,             \* key -> value of the int64 column, NoRow when absent
  issued,             \* history: per writer, number of FlushAsync calls
  sig,                \* history: per writer, the flush whose callback ran last
  observed,           \* history: per writer, last flush a Wait has observed
  applied,            \* history: key -> value last handed to Apply
  handed,             \* history: key -> number of flushed batches holding its Insert
  stale,              \* history: the last NextBatch returned a key whose row held,
                      \* by then, an Update applied after the scanner was opened
  curl_pc,            \* position of the curl thread
  curl_url,           \* CurlWebPages: index of the url fetched next
  stopping_,          \* AsyncClientInitialiser::stopping_
  client_future_,     \* the shared state of client_promise_ / client_future_
  init_pc,            \* position of init_client_thread_ in InitClient
  attempts,           \* history: calls of client_builder_.Build (saturating)
  owner_pc,           \* the owner: alive, joining (in the destructor), destroyed
  caller_pc,          \* per caller thread: idle; in client(): blocked (the future
                      \* was pending at entry) or fetching; back: woken or returned
  got_future,         \* per caller thread: holds the result of get_client_future()
  futures,            \* history: the shared states that the futures returned by
                      \* get_client_future() refer to
  returned,           \* history: the values client() has returned so far
  resolutions,        \* history: how often the promise was set (saturating)
  shutdown_pending,   \* history: who first ran Shutdown() while the future was
                      \* pending: "no", "Shutdown" (a caller) or "destructor"
  base_store,         \* Base Store: key -> row, for the keys it holds
  delta_units,        \* Delta Units not yet compacted, oldest first
  next_seq,           \* sequence number of the next Delta Unit
  compacted,          \* history: the Delta Units folded in by the last compaction
  compactions         \* history: compactions done (saturating)

writeVars == <<FLAGS_row_count, kSessionBatchSize, main_pc, ins_key, upd_pc,
               upd_key, iteration, scan_pc, scanner, rows, stop_latch, session,
               last_s, ret, inflight, tablet, issued, sig, observed, applied,
               handed, stale, curl_pc, curl_url>>

curlVars == <<curl_pc, curl_url>>

storeVars == <<base_store, delta_units, next_seq, compacted, compactions>>

asyncVars == <<stopping_, client_future_, init_pc, attempts, owner_pc, caller_pc,
               got_future, futures, returned, resolutions, shutdown_pending>>

vars == <<writeVars, asyncVars, storeVars>>

Writers == {"insert", "update"}
Statuses == {"OK", "IOError"}
NoRow == -1

Keys == 0 .. (FLAGS_row_count - 1)

\* A history counter that stops at max.
Saturate(n, max) == IF n < max THEN n + 1 ELSE max

\* ------------------------------------------------------------ Synchronizer
\* Synchronizer: a latch of count 1 and the status it was resolved with.
\* runs and resets are history: the StatusCB runs since the last Reset
\* (saturating) and the Reset calls so far.
NewSynchronizer == [count |-> 1, s |-> "OK", runs |-> 0, resets |-> 0]

StatusCB(sy, st) ==
  [sy EXCEPT !.count = IF @ > 0 THEN @ - 1 ELSE 0, !.s = st, !.runs = Saturate(@, 2)]

Reset(sy) == [sy EXCEPT !.count = 1, !.runs = 0, !.resets = @ + 1]

\* Wait() returns once the latch is at 0.
WaitReturns(sy) == sy.count = 0

\* ------------------------------------------------------------------- rows
\* Variant: the key is written to the int64 column as well.
MakeRow_KeyAsValue(key, val) == [key |-> key, val |-> key]

MakeRow(key, val) == [key |-> key, val |-> val]

\* --------------------------------------------------------------- YBSession
\* Apply in MANUAL_FLUSH mode: the mutation is queued, nothing is sent.
Apply(buf, op) == Append(buf, op)

\* -------------------------------------------------------- tablet (server)
ApplyOp(tab, op) ==
  IF op.kind = "insert"
  THEN IF tab[op.row.key] = NoRow THEN [tab EXCEPT ![op.row.key] = op.row.val] ELSE tab
  ELSE IF tab[op.row.key] # NoRow THEN [tab EXCEPT ![op.row.key] = op.row.val] ELSE tab

\* The mutations ops[lo] .. ops[hi] applied in queue order.
RECURSIVE ApplyRange(_, _, _, _)
ApplyRange(tab, ops, lo, hi) ==
  IF lo > hi THEN tab
  ELSE IF lo = hi THEN ApplyOp(tab, ops[lo])
  ELSE LET mid == (lo + hi) \div 2
           half == ApplyRange(tab, ops, lo, mid)
       IN  \* a mutation sets a value and never adds or removes a key; the
           \* comparison has the first half computed before the second starts
           IF DOMAIN half = DOMAIN tab THEN ApplyRange(half, ops, mid + 1, hi) ELSE tab

\* The first n mutations of a batch applied in queue order.
ApplyOps(tab, ops, n) == ApplyRange(tab, ops, 1, n)

\* FlushAsync: the session hands every queued mutation to one batch and is
\* empty again; the callback runs when the batch is acknowledged.
FlushAsync(w) ==
  /\ inflight' = inflight \cup {[w |-> w, n |-> issued[w] + 1, ops |-> session[w]]}
  /\ session' = [session EXCEPT ![w] = <<>>]
  /\ issued' = [issued EXCEPT ![w] = issued[w] + 1]
  /\ handed' = [k \in Keys |-> handed[k] + Cardinality(
                  {i \in 1 .. Len(session[w]) :
                     session[w][i].kind = "insert" /\ session[w][i].row.key = k})]

\* Variant: last_s->Wait() is left out, the flush is issued at once.
WaitForLastBatchAndFlush_NoWait(w, key) ==
  IF key % kSessionBatchSize = 0
  THEN /\ ret' = [ret EXCEPT ![w] = "OK"]
       /\ last_s' = [last_s EXCEPT ![w] = Reset(last_s[w])]
       /\ FlushAsync(w)
       /\ UNCHANGED observed
  ELSE /\ ret' = [ret EXCEPT ![w] = "OK"]
       /\ UNCHANGED <<last_s, session, inflight, issued, handed, observed>>

\* Variant: the batch is flushed when it is full, at keys K-1, 2K-1, ...
WaitForLastBatchAndFlush_WhenFull(w, key) ==
  IF (key + 1) % kSessionBatchSize = 0
  THEN /\ WaitReturns(last_s[w])
       /\ observed' = [observed EXCEPT ![w] = sig[w]]
       /\ ret' = [ret EXCEPT ![w] = last_s[w].s]
       /\ IF last_s[w].s = "OK"
          THEN /\ last_s' = [last_s EXCEPT ![w] = Reset(last_s[w])]
               /\ FlushAsync(w)
          ELSE UNCHANGED <<last_s, session, inflight, issued, handed>>
  ELSE /\ ret' = [ret EXCEPT ![w] = "OK"]
       /\ UNCHANGED <<last_s, session, inflight, issued, handed, observed>>

\* Variant: the wait and the flush come at every second multiple of K only.
WaitForLastBatchAndFlush_EveryOther(w, key) ==
  IF key % (2 * kSessionBatchSize) = 0
  THEN /\ WaitReturns(last_s[w])
       /\ observed' = [observed EXCEPT ![w] = sig[w]]
       /\ ret' = [ret EXCEPT ![w] = last_s[w].s]
       /\ IF last_s[w].s = "OK"
          THEN /\ last_s' = [last_s EXCEPT ![w] = Reset(last_s[w])]
               /\ FlushAsync(w)
          ELSE UNCHANGED <<last_s, session, inflight, issued, handed>>
  ELSE /\ ret' = [ret EXCEPT ![w] = "OK"]
       /\ UNCHANGED <<last_s, session, inflight, issued, handed, observed>>

\* Variant: the status returned by Wait is ignored.
WaitForLastBatchAndFlush_IgnoreStatus(w, key) ==
  IF key % kSessionBatchSize = 0
  THEN /\ WaitReturns(last_s[w])
       /\ observed' = [observed EXCEPT ![w] = sig[w]]
       /\ ret' = [ret EXCEPT ![w] = "OK"]
       /\ last_s' = [last_s EXCEPT ![w] = Reset(last_s[w])]
       /\ FlushAsync(w)
  ELSE /\ ret' = [ret EXCEPT ![w] = "OK"]
       /\ UNCHANGED <<last_s, session, inflight, issued, handed, observed>>

\* Variant: session->FlushAsync(last_s_cb) is left out after the Reset.
WaitForLastBatchAndFlush_NoFlush(w, key) ==
  IF key % kSessionBatchSize = 0
  THEN /\ WaitReturns(last_s[w])
       /\ observed' = [observed EXCEPT ![w] = sig[w]]
       /\ ret' = [ret EXCEPT ![w] = last_s[w].s]
       /\ IF last_s[w].s = "OK"
          THEN /\ last_s' = [last_s EXCEPT ![w] = Reset(last_s[w])]
               /\ UNCHANGED <<session, inflight, issued, handed>>
          ELSE UNCHANGED <<last_s, session, inflight, issued, handed>>
  ELSE /\ ret' = [ret EXCEPT ![w] = "OK"]
       /\ UNCHANGED <<last_s, session, inflight, issued, handed, observed>>

\* ----------------------------------------------- WaitForLastBatchAndFlush
\* Sets last_s, session, inflight, issued, handed, observed and ret of writer w.
WaitForLastBatchAndFlush(w, key) ==
  IF key % kSessionBatchSize = 0
  THEN /\ WaitReturns(last_s[w])
       /\ observed' = [observed EXCEPT ![w] = sig[w]]
       /\ ret' = [ret EXCEPT ![w] = last_s[w].s]
       /\ IF last_s[w].s = "OK"
          THEN /\ last_s' = [last_s EXCEPT ![w] = Reset(last_s[w])]
               /\ FlushAsync(w)
          ELSE UNCHANGED <<last_s, session, inflight, issued, handed>>
  ELSE /\ ret' = [ret EXCEPT ![w] = "OK"]
       /\ UNCHANGED <<last_s, session, inflight, issued, handed, observed>>

\* The process is gone once a CHECK_OK of the update thread has failed.
Alive == upd_pc # "aborted"

\* ------------------------------------------------------------------ Init
InitState(row_count, batch) ==
  /\ FLAGS_row_count = row_count
  /\ kSessionBatchSize = batch
  /\ main_pc = "ins_loop"
  /\ ins_key = 0
  /\ upd_pc = "idle"
  /\ upd_key = 0
  /\ iteration = 1
  /\ scan_pc = "idle"
  /\ scanner = [snap |-> <<>>, pos |-> 0, seen |-> <<>>, quiet |-> FALSE, ok |-> FALSE]
  /\ rows = {}
  /\ stop_latch = 1
  /\ session = [w \in Writers |-> <<>>]
     \* InsertBaseData has run last_s_cb.Run(Status::OK()) on its synchronizer
  /\ last_s = [w \in Writers |-> IF w = "insert" THEN StatusCB(NewSynchronizer, "OK")
                                                ELSE NewSynchronizer]
  /\ ret = [w \in Writers |-> "OK"]
  /\ inflight = {}
  /\ tablet = [k \in 0 .. (FLAGS_row_count - 1) |-> NoRow]
  /\ issued = [w \in Writers |-> 0]
  /\ sig = [w \in Writers |-> 0]
  /\ observed = [w \in Writers |-> 0]
  /\ applied = [k \in 0 .. (FLAGS_row_count - 1) |-> NoRow]
  /\ handed = [k \in 0 .. (FLAGS_row_count - 1) |-> 0]
  /\ stale = FALSE
  /\ curl_pc = "idle"
  /\ curl_url = 0

\* The row count and the cadence are scaled down to 0 .. MaxRowCount and
\* 1 .. MaxBatch; every combination is explored.
InitWrite ==
  \E row_count \in 0 .. MaxRowCount : \E batch \in 1 .. MaxBatch :
    InitState(row_count, batch)

\* -------------------------------------------------------- InsertBaseData
\* Variant: the flush after the loop is left out.
InsertLastFlush_Skipped ==
  /\ main_pc = "ins_loop"
  /\ ~(ins_key < FLAGS_row_count)
  /\ main_pc' = "ins_last_wait"
  /\ UNCHANGED <<last_s, session, inflight, issued, handed, observed, ret>>
  /\ UNCHANGED stale
  /\ UNCHANGED <<asyncVars, storeVars, curlVars>>
  /\ UNCHANGED <<FLAGS_row_count, kSessionBatchSize, ins_key, upd_pc, upd_key,
                 iteration, scan_pc, scanner, rows, stop_latch, tablet, sig,
                 applied>>

\* Variant: the Wait after the last flush is left out.
InsertLastWait_Skipped ==
  /\ main_pc = "ins_last_wait"
  /\ main_pc' = "ins_done"
  /\ UNCHANGED <<observed, ret>>
  /\ UNCHANGED <<handed, stale>>
  /\ UNCHANGED <<asyncVars, storeVars, curlVars>>
  /\ UNCHANGED <<FLAGS_row_count, kSessionBatchSize, ins_key, upd_pc, upd_key,
                 iteration, scan_pc, scanner, rows, stop_latch, session, last_s,
                 inflight, tablet, issued, sig, applied>>

InsertApply ==
  /\ main_pc = "ins_loop"
  /\ ins_key < FLAGS_row_count
  /\ session' = [session EXCEPT !["insert"] =
                   Apply(@, [kind |-> "insert", row |-> MakeRow(ins_key, 0)])]
  /\ applied' = [applied EXCEPT ![ins_key] = 0]
  /\ main_pc' = "ins_flush"
  /\ UNCHANGED <<handed, stale>>
  /\ UNCHANGED <<asyncVars, storeVars, curlVars>>
  /\ UNCHANGED <<FLAGS_row_count, kSessionBatchSize, ins_key, upd_pc, upd_key,
                 iteration, scan_pc, scanner, rows, stop_latch, last_s, ret,
                 inflight, tablet, issued, sig, observed>>

InsertFlush ==
  /\ main_pc = "ins_flush"
  /\ WaitForLastBatchAndFlush("insert", ins_key)
  /\ main_pc' = IF ret'["insert"] = "OK" THEN "ins_loop" ELSE "ins_failed"
  /\ ins_key' = IF ret'["insert"] = "OK" THEN ins_key + 1 ELSE ins_key
  /\ UNCHANGED stale
  /\ UNCHANGED <<asyncVars, storeVars, curlVars>>
  /\ UNCHANGED <<FLAGS_row_count, kSessionBatchSize, upd_pc, upd_key, iteration,
                 scan_pc, scanner, rows, stop_latch, tablet, sig, applied>>

InsertLastFlush ==
  /\ main_pc = "ins_loop"
  /\ ~(ins_key < FLAGS_row_count)
  /\ WaitForLastBatchAndFlush("insert", kSessionBatchSize)
  /\ main_pc' = IF ret'["insert"] = "OK" THEN "ins_last_wait" ELSE "ins_failed"
  /\ UNCHANGED stale
  /\ UNCHANGED <<asyncVars, storeVars, curlVars>>
  /\ UNCHANGED <<FLAGS_row_count, kSessionBatchSize, ins_key, upd_pc, upd_key,
                 iteration, scan_pc, scanner, rows, stop_latch, tablet, sig,
                 applied>>

InsertLastWait ==
  /\ main_pc = "ins_last_wait"
  /\ WaitReturns(last_s["insert"])
  /\ observed' = [observed EXCEPT !["insert"] = sig["insert"]]
  /\ ret' = [ret EXCEPT !["insert"] = last_s["insert"].s]
  /\ main_pc' = IF last_s["insert"].s = "OK" THEN "ins_done" ELSE "ins_failed"
  /\ UNCHANGED <<handed, stale>>
  /\ UNCHANGED <<asyncVars, storeVars, curlVars>>
  /\ UNCHANGED <<FLAGS_row_count, kSessionBatchSize, ins_key, upd_pc, upd_key,
                 iteration, scan_pc, scanner, rows, stop_latch, session, last_s,
                 inflight, tablet, issued, sig, applied>>

\* ------------------------------------------------------- flush executor
\* How many mutations of a batch of len a failed flush may have applied: all of
\* them, or a few.
PartialApplied(len) == {n \in 0 .. len : n <= MaxPartial \/ n = len}

\* The server answers one outstanding flush. With status OK every mutation of
\* the batch has been applied in queue order; with a failure only the first n.
FlushComplete(f, st, n) ==
  /\ Alive
  /\ f \in inflight
  /\ st = "OK" => n = Len(f.ops)
  /\ tablet' = ApplyOps(tablet, f.ops, n)
  /\ last_s' = [last_s EXCEPT ![f.w] = StatusCB(last_s[f.w], st)]
  /\ sig' = [sig EXCEPT ![f.w] = f.n]
  /\ inflight' = inflight \ {f}
  /\ UNCHANGED <<handed, stale>>
  /\ UNCHANGED <<asyncVars, storeVars, curlVars>>
  /\ UNCHANGED <<FLAGS_row_count, kSessionBatchSize, main_pc, ins_key, upd_pc,
                 upd_key, iteration, scan_pc, scanner, rows, stop_latch, session,
                 ret, issued, observed, applied>>

FlushExecutor ==
  \E f \in inflight : \E st \in Statuses : \E n \in PartialApplied(Len(f.ops)) :
    FlushComplete(f, st, n)

\* ------------------------------------------------------------ RunThreads
RunThreadsCreateUpdate ==
  /\ main_pc = "ins_done"
  /\ upd_pc' = "iter"
  /\ main_pc' = "create_scan"
  /\ UNCHANGED <<handed, stale>>
  /\ UNCHANGED <<asyncVars, storeVars, curlVars>>
  /\ UNCHANGED <<FLAGS_row_count, kSessionBatchSize, ins_key, upd_key, iteration,
                 scan_pc, scanner, rows, stop_latch, session, last_s, ret,
                 inflight, tablet, issued, sig, observed, applied>>

RunThreadsCreateScan ==
  /\ Alive
  /\ main_pc = "create_scan"
  /\ scan_pc' = "check"
  /\ main_pc' = "create_curl"
  /\ UNCHANGED <<handed, stale>>
  /\ UNCHANGED <<asyncVars, storeVars, curlVars>>
  /\ UNCHANGED <<FLAGS_row_count, kSessionBatchSize, ins_key, upd_pc, upd_key,
                 iteration, scanner, rows, stop_latch, session, last_s, ret,
                 inflight, tablet, issued, sig, observed, applied>>

RunThreadsCreateCurl ==
  /\ Alive
  /\ main_pc = "create_curl"
  /\ curl_pc' = "check"
  /\ main_pc' = "sleep"
  /\ UNCHANGED <<handed, stale, curl_url>>
  /\ UNCHANGED <<asyncVars, storeVars>>
  /\ UNCHANGED <<FLAGS_row_count, kSessionBatchSize, ins_key, upd_pc, upd_key,
                 iteration, scan_pc, scanner, rows, stop_latch, session, last_s,
                 ret, inflight, tablet, issued, sig, observed, applied>>

\* SleepFor(seconds_to_run) is over: stop_latch.CountDown()
CountDown ==
  /\ Alive
  /\ main_pc = "sleep"
  /\ stop_latch' = 0
  /\ main_pc' = "join"
  /\ UNCHANGED <<handed, stale>>
  /\ UNCHANGED <<asyncVars, storeVars, curlVars>>
  /\ UNCHANGED <<FLAGS_row_count, kSessionBatchSize, ins_key, upd_pc, upd_key,
                 iteration, scan_pc, scanner, rows, session, last_s, ret,
                 inflight, tablet, issued, sig, observed, applied>>

Join ==
  /\ main_pc = "join"
  /\ upd_pc = "done"
  /\ scan_pc = "done"
  /\ curl_pc = "done"
  /\ main_pc' = "joined"
  /\ UNCHANGED <<handed, stale>>
  /\ UNCHANGED <<asyncVars, storeVars, curlVars>>
  /\ UNCHANGED <<FLAGS_row_count, kSessionBatchSize, ins_key, upd_pc, upd_key,
                 iteration, scan_pc, scanner, rows, stop_latch, session, last_s,
                 ret, inflight, tablet, issued, sig, observed, applied>>

\* ------------------------------------------------------------ UpdateRows
\* Variant: the pass starts without last_s_cb.Run(Status::OK()).
UpdateIterate_NoPrime ==
  /\ upd_pc = "iter"
  /\ stop_latch > 0
  /\ iteration <= MaxIteration
  /\ upd_key' = 0
  /\ upd_pc' = "loop"
  /\ UNCHANGED <<handed, stale>>
  /\ UNCHANGED <<asyncVars, storeVars, curlVars>>
  /\ UNCHANGED <<FLAGS_row_count, kSessionBatchSize, main_pc, ins_key, iteration,
                 scan_pc, scanner, rows, stop_latch, session, last_s, ret, inflight,
                 tablet, issued, sig, observed, applied>>

\* The head of the outer loop: leave when the latch is down, otherwise
\* last_s_cb.Run(Status::OK()) and start the pass at key 0. Passes beyond
\* MaxIteration are not explored: the thread then stays here until the latch
\* is down.
UpdateIterate ==
  /\ upd_pc = "iter"
  /\ stop_latch > 0
  /\ iteration <= MaxIteration
  /\ last_s' = [last_s EXCEPT !["update"] = StatusCB(@, "OK")]
  /\ upd_key' = 0
  /\ upd_pc' = "loop"
  /\ UNCHANGED <<handed, stale>>
  /\ UNCHANGED <<asyncVars, storeVars, curlVars>>
  /\ UNCHANGED <<FLAGS_row_count, kSessionBatchSize, main_pc, ins_key, iteration,
                 scan_pc, scanner, rows, stop_latch, session, ret, inflight,
                 tablet, issued, sig, observed, applied>>

UpdateExit ==
  /\ upd_pc = "iter"
  /\ ~(stop_latch > 0)
  /\ upd_pc' = "done"
  /\ UNCHANGED <<handed, stale>>
  /\ UNCHANGED <<asyncVars, storeVars, curlVars>>
  /\ UNCHANGED <<FLAGS_row_count, kSessionBatchSize, main_pc, ins_key, upd_key,
                 iteration, scan_pc, scanner, rows, stop_latch, session, last_s,
                 ret, inflight, tablet, issued, sig, observed, applied>>

UpdateApply ==
  /\ upd_pc = "loop"
  /\ upd_key < FLAGS_row_count /\ stop_latch > 0
  /\ session' = [session EXCEPT !["update"] =
                   Apply(@, [kind |-> "update", row |-> MakeRow(upd_key, iteration)])]
  /\ applied' = [applied EXCEPT ![upd_key] = iteration]
  /\ upd_pc' = "flush"
  /\ UNCHANGED <<handed, stale>>
  /\ UNCHANGED <<asyncVars, storeVars, curlVars>>
  /\ UNCHANGED <<FLAGS_row_count, kSessionBatchSize, main_pc, ins_key, upd_key,
                 iteration, scan_pc, scanner, rows, stop_latch, last_s, ret,
                 inflight, tablet, issued, sig, observed>>

UpdateFlush ==
  /\ upd_pc = "flush"
  /\ WaitForLastBatchAndFlush("update", upd_key)
  /\ upd_pc' = IF ret'["update"] = "OK" THEN "loop" ELSE "aborted"
  /\ upd_key' = IF ret'["update"] = "OK" THEN upd_key + 1 ELSE upd_key
  /\ UNCHANGED stale
  /\ UNCHANGED <<asyncVars, storeVars, curlVars>>
  /\ UNCHANGED <<FLAGS_row_count, kSessionBatchSize, main_pc, ins_key, iteration,
                 scan_pc, scanner, rows, stop_latch, tablet, sig, applied>>

UpdateLastFlush ==
  /\ upd_pc = "loop"
  /\ ~(upd_key < FLAGS_row_count /\ stop_latch > 0)
  /\ WaitForLastBatchAndFlush("update", kSessionBatchSize)
  /\ upd_pc' = IF ret'["update"] = "OK" THEN "last_wait" ELSE "aborted"
  /\ UNCHANGED stale
  /\ UNCHANGED <<asyncVars, storeVars, curlVars>>
  /\ UNCHANGED <<FLAGS_row_count, kSessionBatchSize, main_pc, ins_key, upd_key,
                 iteration, scan_pc, scanner, rows, stop_latch, tablet, sig,
                 applied>>

\* Variant: the last_s.Reset() after the Wait is left out.
UpdateLastWait_NoReset ==
  /\ upd_pc = "last_wait"
  /\ WaitReturns(last_s["update"])
  /\ observed' = [observed EXCEPT !["update"] = sig["update"]]
  /\ ret' = [ret EXCEPT !["update"] = last_s["update"].s]
  /\ IF last_s["update"].s = "OK"
     THEN /\ iteration' = iteration + 1
          /\ upd_pc' = "iter"
          /\ UNCHANGED last_s
     ELSE /\ upd_pc' = "aborted"
          /\ UNCHANGED <<last_s, iteration>>
  /\ UNCHANGED <<handed, stale>>
  /\ UNCHANGED <<asyncVars, storeVars, curlVars>>
  /\ UNCHANGED <<FLAGS_row_count, kSessionBatchSize, main_pc, ins_key, upd_key,
                 scan_pc, scanner, rows, stop_latch, session, inflight, tablet,
                 issued, sig, applied>>

\* Variant: the Reset is done without the Wait before it.
UpdateLastWait_NoWait ==
  /\ upd_pc = "last_wait"
  /\ last_s' = [last_s EXCEPT !["update"] = Reset(@)]
  /\ iteration' = iteration + 1
  /\ upd_pc' = "iter"
  /\ UNCHANGED <<observed, ret>>
  /\ UNCHANGED <<handed, stale>>
  /\ UNCHANGED <<asyncVars, storeVars, curlVars>>
  /\ UNCHANGED <<FLAGS_row_count, kSessionBatchSize, main_pc, ins_key, upd_key,
                 scan_pc, scanner, rows, stop_latch, session, inflight, tablet,
                 issued, sig, applied>>

\* CHECK_OK(last_s.Wait()); last_s.Reset();
UpdateLastWait ==
  /\ upd_pc = "last_wait"
  /\ WaitReturns(last_s["update"])
  /\ observed' = [observed EXCEPT !["update"] = sig["update"]]
  /\ ret' = [ret EXCEPT !["update"] = last_s["update"].s]
  /\ IF last_s["update"].s = "OK"
     THEN /\ last_s' = [last_s EXCEPT !["update"] = Reset(@)]
          /\ iteration' = iteration + 1
          /\ upd_pc' = "iter"
     ELSE /\ upd_pc' = "aborted"
          /\ UNCHANGED <<last_s, iteration>>
  /\ UNCHANGED <<handed, stale>>
  /\ UNCHANGED <<asyncVars, storeVars, curlVars>>
  /\ UNCHANGED <<FLAGS_row_count, kSessionBatchSize, main_pc, ins_key, upd_key,
                 scan_pc, scanner, rows, stop_latch, session, inflight, tablet,
                 issued, sig, applied>>

\* -------------------------------------------------------------- YBScanner
\* Every Apply so far has been flushed and acknowledged.
Quiescent == inflight = {} /\ \A w \in Writers : session[w] = <<>>

\* No session has had a flush completed with a failure status: every flush
\* before the last was waited on and found OK, or its writer has stopped.
AllFlushesOK == \A w \in Writers : last_s[w].s = "OK"

\* Open pins the rows as of now. seen, quiet and ok are history: what had been
\* handed to Apply by then, whether all of it was acknowledged, and whether
\* every acknowledgement was OK.
Open == [snap |-> tablet, pos |-> 0, seen |-> applied, quiet |-> Quiescent,
         ok |-> AllFlushesOK]

HasMoreRows(sc) == sc.pos < FLAGS_row_count

BatchKeys(sc) ==
  {k \in Keys : sc.pos <= k /\ k < sc.pos + ScanBatchRows /\ sc.snap[k] # NoRow}

\* Variant: the batch is read from the rows as they are now.
NextBatch_Latest(sc) == {[key |-> k, val |-> tablet[k]] : k \in BatchKeys(sc)}

\* The rows of the next batch, read from the pinned snapshot.
NextBatch(sc) == {[key |-> k, val |-> sc.snap[k]] : k \in BatchKeys(sc)}

\* All the rows a scanner returns from Open to the last batch.
FullScan(sc) ==
  UNION {NextBatch([sc EXCEPT !.pos = p]) :
           p \in {q \in 0 .. FLAGS_row_count : q % ScanBatchRows = 0}}

\* --------------------------------------------------------------- ScanRows
\* Variant: the scanner is opened only once the writers have nothing buffered
\* and nothing in flight.
ScanOpen_AfterFlushes ==
  /\ Alive
  /\ scan_pc = "check"
  /\ stop_latch > 0
  /\ Quiescent
  /\ scanner' = Open
  /\ rows' = {}
  /\ scan_pc' = "more"
  /\ stale' = FALSE
  /\ UNCHANGED handed
  /\ UNCHANGED <<asyncVars, storeVars, curlVars>>
  /\ UNCHANGED <<FLAGS_row_count, kSessionBatchSize, main_pc, ins_key, upd_pc,
                 upd_key, iteration, stop_latch, session, last_s, ret, inflight,
                 tablet, issued, sig, observed, applied>>

ScanOpen ==
  /\ Alive
  /\ scan_pc = "check"
  /\ stop_latch > 0
  /\ scanner' = Open
  /\ rows' = {}
  /\ scan_pc' = "more"
  /\ stale' = FALSE
  /\ UNCHANGED handed
  /\ UNCHANGED <<asyncVars, storeVars, curlVars>>
  /\ UNCHANGED <<FLAGS_row_count, kSessionBatchSize, main_pc, ins_key, upd_pc,
                 upd_key, iteration, stop_latch, session, last_s, ret, inflight,
                 tablet, issued, sig, observed, applied>>

ScanExit ==
  /\ Alive
  /\ scan_pc = "check"
  /\ ~(stop_latch > 0)
  /\ scan_pc' = "done"
  /\ UNCHANGED <<handed, stale>>
  /\ UNCHANGED <<asyncVars, storeVars, curlVars>>
  /\ UNCHANGED <<FLAGS_row_count, kSessionBatchSize, main_pc, ins_key, upd_pc,
                 upd_key, iteration, scanner, rows, stop_latch, session, last_s,
                 ret, inflight, tablet, issued, sig, observed, applied>>

ScanNextBatch ==
  /\ Alive
  /\ scan_pc = "more"
  /\ HasMoreRows(scanner)
  /\ rows' = NextBatch(scanner)
  /\ scanner' = [scanner EXCEPT !.pos = @ + ScanBatchRows]
  /\ stale' = \E k \in BatchKeys(scanner) : tablet[k] > scanner.seen[k]
  /\ UNCHANGED handed
  /\ UNCHANGED <<asyncVars, storeVars, curlVars>>
  /\ UNCHANGED <<FLAGS_row_count, kSessionBatchSize, main_pc, ins_key, upd_pc,
                 upd_key, iteration, scan_pc, stop_latch, session, last_s, ret,
                 inflight, tablet, issued, sig, observed, applied>>

ScanEnd ==
  /\ Alive
  /\ scan_pc = "more"
  /\ ~HasMoreRows(scanner)
  /\ scan_pc' = "check"
  /\ UNCHANGED <<handed, stale>>
  /\ UNCHANGED <<asyncVars, storeVars, curlVars>>
  /\ UNCHANGED <<FLAGS_row_count, kSessionBatchSize, main_pc, ins_key, upd_pc,
                 upd_key, iteration, scanner, rows, stop_latch, session, last_s,
                 ret, inflight, tablet, issued, sig, observed, applied>>

\* ----------------------------------------------------------- CurlWebPages
\* urls.push_back(base_url + "/scans"); urls.push_back(base_url + "/transactions")
urls == <<"/scans", "/transactions">>

\* Outer loop test; the for loop starts at the first url.
CurlCheck ==
  /\ Alive
  /\ curl_pc = "check"
  /\ stop_latch > 0
  /\ curl_url' = 1
  /\ curl_pc' = "fetch"
  /\ UNCHANGED <<handed, stale>>
  /\ UNCHANGED <<asyncVars, storeVars>>
  /\ UNCHANGED <<FLAGS_row_count, kSessionBatchSize, main_pc, ins_key, upd_pc,
                 upd_key, iteration, scan_pc, scanner, rows, stop_latch, session,
                 last_s, ret, inflight, tablet, issued, sig, observed, applied>>

CurlExit ==
  /\ Alive
  /\ curl_pc = "check"
  /\ ~(stop_latch > 0)
  /\ curl_pc' = "done"
  /\ UNCHANGED <<handed, stale, curl_url>>
  /\ UNCHANGED <<asyncVars, storeVars>>
  /\ UNCHANGED <<FLAGS_row_count, kSessionBatchSize, main_pc, ins_key, upd_pc,
                 upd_key, iteration, scan_pc, scanner, rows, stop_latch, session,
                 last_s, ret, inflight, tablet, issued, sig, observed, applied>>

\* curl.FetchURL(url, &dst) returns: a failure status is ignored, and after an
\* OK the CHECK_GT(dst.length(), 0) passes, the pages /scans and /transactions
\* of the tablet server being never empty. Either way the loop goes on to the
\* next url; the latch is not looked at between the urls of one round.
CurlFetch ==
  /\ Alive
  /\ curl_pc = "fetch"
  /\ IF curl_url < Len(urls)
     THEN /\ curl_url' = curl_url + 1
          /\ UNCHANGED curl_pc
     ELSE /\ curl_pc' = "check"
          /\ UNCHANGED curl_url
  /\ UNCHANGED <<handed, stale>>
  /\ UNCHANGED <<asyncVars, storeVars>>
  /\ UNCHANGED <<FLAGS_row_count, kSessionBatchSize, main_pc, ins_key, upd_pc,
                 upd_key, iteration, scan_pc, scanner, rows, stop_latch, session,
                 last_s, ret, inflight, tablet, issued, sig, observed, applied>>

\* ================================================= AsyncClientInitialiser
Callers == 1 .. NumCallers

Pending == [state |-> "pending", value |-> "none"]
Ready(client) == [state |-> "ready", value |-> client]
Failed(error) == [state |-> "failed", value |-> error]

\* client_promise_.set_value / set_exception
SetPromise(v) ==
  /\ client_future_' = v
  /\ resolutions' = Saturate(resolutions, 2)

\* The state the constructor leaves: the future is taken from the promise and
\* init_client_thread_ runs InitClient.
InitAsync ==
  /\ stopping_ = FALSE
  /\ client_future_ = Pending
  /\ init_pc = "check"
  /\ attempts = 0
  /\ owner_pc = "alive"
  /\ caller_pc = [c \in Callers |-> "idle"]
  /\ got_future = [c \in Callers |-> FALSE]
  /\ futures = {}
  /\ returned = {}
  /\ resolutions = 0
  /\ shutdown_pending = "no"

\* Variant: Shutdown also resolves the future itself.
Shutdown_Resolves ==
  /\ stopping_' = TRUE
  /\ SetPromise(Failed("Cancelled"))
  /\ UNCHANGED <<init_pc, attempts>>

\* Variant: Shutdown flips the flag.
Shutdown_Toggle ==
  /\ stopping_' = ~stopping_
  /\ UNCHANGED <<client_future_, resolutions, init_pc, attempts>>

\* Variant: Shutdown leaves the flag down.
Shutdown_NoFlag ==
  UNCHANGED <<stopping_, client_future_, resolutions, init_pc, attempts>>

\* void Shutdown() { stopping_ = true; }
Shutdown ==
  /\ stopping_' = TRUE
  /\ UNCHANGED <<client_future_, resolutions, init_pc, attempts>>

ShutdownCall ==
  /\ owner_pc = "alive"
  /\ Shutdown
  /\ shutdown_pending' = IF shutdown_pending = "no" /\ client_future_.state = "pending"
                         THEN "Shutdown" ELSE shutdown_pending
  /\ UNCHANGED <<owner_pc, caller_pc, got_future, returned>>
  /\ UNCHANGED futures
  /\ UNCHANGED <<writeVars, storeVars>>

\* The shared state of client_promise_, which client_future_ refers to.
SharedState == "client_promise_"

\* Variant: get_client_future() returns only once the future is resolved.
get_client_future_Blocking(c) ==
  /\ owner_pc = "alive"
  /\ got_future[c] = FALSE
  /\ client_future_.state # "pending"
  /\ got_future' = [got_future EXCEPT ![c] = TRUE]
  /\ futures' = futures \cup {SharedState}
  /\ UNCHANGED <<stopping_, client_future_, init_pc, attempts, owner_pc, caller_pc,
                 returned, resolutions, shutdown_pending>>
  /\ UNCHANGED <<writeVars, storeVars>>

\* get_client_future() hands out client_future_ and returns at once.
get_client_future(c) ==
  /\ owner_pc = "alive"
  /\ got_future[c] = FALSE
  /\ got_future' = [got_future EXCEPT ![c] = TRUE]
  /\ futures' = futures \cup {SharedState}
  /\ UNCHANGED <<stopping_, client_future_, init_pc, attempts, owner_pc, caller_pc,
                 returned, resolutions, shutdown_pending>>
  /\ UNCHANGED <<writeVars, storeVars>>

\* client(): the caller enters client_future_.get() ...
client(c) ==
  /\ owner_pc = "alive"
  /\ caller_pc[c] \in {"idle", "woken", "returned"}
  /\ caller_pc' = [caller_pc EXCEPT ![c] =
                     IF client_future_.state = "pending" THEN "blocked" ELSE "fetching"]
  /\ UNCHANGED <<stopping_, client_future_, init_pc, attempts, owner_pc, got_future,
                 returned, resolutions, shutdown_pending>>
  /\ UNCHANGED futures
  /\ UNCHANGED <<writeVars, storeVars>>

\* ... and leaves it with the terminal value once the future is resolved.
clientReturn(c) ==
  /\ caller_pc[c] \in {"blocked", "fetching"}
  /\ client_future_.state # "pending"
  /\ caller_pc' = [caller_pc EXCEPT ![c] =
                     IF caller_pc[c] = "blocked" THEN "woken" ELSE "returned"]
  /\ returned' = returned \cup {client_future_}
  /\ UNCHANGED <<stopping_, client_future_, init_pc, attempts, owner_pc, got_future,
                 resolutions, shutdown_pending>>
  /\ UNCHANGED futures
  /\ UNCHANGED <<writeVars, storeVars>>

\* InitClient, head of the retry loop: the check point of the stop flag.
InitClientCheck ==
  /\ init_pc = "check"
  /\ IF stopping_
     THEN /\ SetPromise(Failed("Cancelled"))
          /\ init_pc' = "exited"
          /\ UNCHANGED attempts
     ELSE /\ init_pc' = "build"
          /\ attempts' = Saturate(attempts, MaxAttempts)
          /\ UNCHANGED <<client_future_, resolutions>>
  /\ UNCHANGED <<stopping_, owner_pc, caller_pc, got_future, returned,
                 shutdown_pending>>
  /\ UNCHANGED futures
  /\ UNCHANGED <<writeVars, storeVars>>

\* InitClient, an attempt of client_builder_.Build returns. A success resolves
\* the future with the client. A failure reaches the check point: Cancelled when
\* the stop flag is up, InitializationError when the failure is not retryable,
\* otherwise back off and retry.
InitClientBuild(outcome) ==
  /\ init_pc = "build"
  /\ IF outcome = "ok"
     THEN /\ SetPromise(Ready(attempts))
          /\ init_pc' = "exited"
     ELSE IF stopping_
     THEN /\ SetPromise(Failed("Cancelled"))
          /\ init_pc' = "exited"
     ELSE IF outcome = "fatal"
     THEN /\ SetPromise(Failed("InitializationError"))
          /\ init_pc' = "exited"
     ELSE /\ init_pc' = "check"
          /\ UNCHANGED <<client_future_, resolutions>>
  /\ UNCHANGED <<stopping_, attempts, owner_pc, caller_pc, got_future, returned,
                 shutdown_pending>>
  /\ UNCHANGED futures
  /\ UNCHANGED <<writeVars, storeVars>>

InitClient ==
  \/ InitClientCheck
  \/ \E outcome \in {"ok", "transient", "fatal"} : InitClientBuild(outcome)

\* ~AsyncClientInitialiser: Shutdown(), then init_client_thread_.join()
DestructorBegin ==
  /\ owner_pc = "alive"
  /\ Shutdown
  /\ shutdown_pending' = IF shutdown_pending = "no" /\ client_future_.state = "pending"
                         THEN "destructor" ELSE shutdown_pending
  /\ owner_pc' = "joining"
  /\ UNCHANGED <<caller_pc, got_future, returned>>
  /\ UNCHANGED futures
  /\ UNCHANGED <<writeVars, storeVars>>

DestructorJoin ==
  /\ owner_pc = "joining"
  /\ init_pc = "exited"
  /\ owner_pc' = "destroyed"
  /\ UNCHANGED <<stopping_, client_future_, init_pc, attempts, caller_pc, got_future,
                 returned, resolutions, shutdown_pending>>
  /\ UNCHANGED futures
  /\ UNCHANGED <<writeVars, storeVars>>

\* ============================================ Base Store and Delta Units
\* The storage engine is outside the two files; this part follows the design
\* document, sections 3, 4.4 and 4.6.
Columns == {"string", "int64"}

StoreKeys == 0 .. (MaxStoreKeys - 1)

\* The row MakeRow(key, 0) of an Insert.
InsertedRow == [c \in Columns |-> 0]

\* What a Delta Unit may hold: for some rows of the Base Store, a non-empty
\* set of columns to set.
UnitShapes ==
  UNION {[ks -> (SUBSET Columns) \ {{}}] : ks \in (SUBSET (DOMAIN base_store)) \ {{}}}

InitStore ==
  /\ base_store = <<>>
  /\ delta_units = <<>>
  /\ next_seq = 1
  /\ compacted = <<>>
  /\ compactions = 0

\* A MemStore flush adds a new row to the Base Store.
MemStoreFlush(k) ==
  /\ k \notin DOMAIN base_store
  /\ base_store' = [j \in (DOMAIN base_store) \cup {k} |->
                      IF j = k THEN InsertedRow ELSE base_store[j]]
  /\ UNCHANGED <<delta_units, next_seq, compacted, compactions>>
  /\ UNCHANGED <<writeVars, asyncVars>>

\* Updates of rows of the Base Store are appended as a new Delta Unit with the
\* next sequence number. As in UpdateRows, the value written is the number of
\* the pass, here the sequence number; a mutation sets some of the columns.
AppendDeltaUnit(shape) ==
  /\ next_seq <= MaxDeltaUnits
  /\ delta_units' = Append(delta_units,
                       [seq |-> next_seq,
                        muts |-> [k \in DOMAIN shape |-> [c \in shape[k] |-> next_seq]]])
  /\ next_seq' = next_seq + 1
  /\ UNCHANGED <<base_store, compacted, compactions>>
  /\ UNCHANGED <<writeVars, asyncVars>>

\* The row a Scanner reports for key k: for each column the value set by the
\* Delta Unit with the highest sequence number that sets it, otherwise the
\* value of the Base Store.
MergedRow(base, units, k) ==
  [c \in Columns |->
     LET setters == {i \in 1 .. Len(units) :
                       k \in DOMAIN units[i].muts /\ c \in DOMAIN units[i].muts[k]}
     IN  IF setters = {} THEN base[k][c]
         ELSE LET last == CHOOSE i \in setters :
                            \A j \in setters : units[j].seq <= units[i].seq
              IN  units[last].muts[k][c]]

\* What a Scanner pinned to {base, units} reports.
MergedRows(base, units) == [k \in DOMAIN base |-> MergedRow(base, units, k)]

\* One Delta Unit folded into the rows of a Base Store.
MergeUnit(base, u) ==
  [k \in DOMAIN base |->
     IF k \in DOMAIN u.muts
     THEN [c \in Columns |-> IF c \in DOMAIN u.muts[k] THEN u.muts[k][c] ELSE base[k][c]]
     ELSE base[k]]

\* Variant: the n oldest Delta Units folded in newest first.
RECURSIVE MergeUnits_NewestFirst(_, _, _)
MergeUnits_NewestFirst(base, units, n) ==
  IF n = 0 THEN base
  ELSE MergeUnits_NewestFirst(MergeUnit(base, units[n]), units, n - 1)

\* The n oldest Delta Units folded in, in sequence-number order.
RECURSIVE MergeUnits(_, _, _)
MergeUnits(base, units, n) ==
  IF n = 0 THEN base
  ELSE MergeUnit(MergeUnits(base, units, n - 1), units[n])

\* Compaction of the n oldest Delta Units: the new Base Store replaces the old
\* one and the merged units are retired, in one step.
Compact(n) ==
  /\ n \in 1 .. Len(delta_units)
  /\ base_store' = MergeUnits(base_store, delta_units, n)
  /\ delta_units' = SubSeq(delta_units, n + 1, Len(delta_units))
  /\ compacted' = SubSeq(delta_units, 1, n)
  /\ compactions' = Saturate(compactions, 2)
  /\ UNCHANGED next_seq
  /\ UNCHANGED <<writeVars, asyncVars>>

\* ------------------------------------------------------------------ Spec
Init == InitWrite /\ InitAsync /\ InitStore

Next ==
  \/ InsertApply
  \/ InsertFlush
  \/ InsertLastFlush
  \/ InsertLastWait
  \/ FlushExecutor
  \/ RunThreadsCreateUpdate
  \/ RunThreadsCreateScan
  \/ CountDown
  \/ Join
  \/ UpdateIterate
  \/ UpdateExit
  \/ UpdateApply
  \/ UpdateFlush
  \/ UpdateLastFlush
  \/ UpdateLastWait
  \/ ScanOpen
  \/ ScanExit
  \/ ScanNextBatch
  \/ ScanEnd
  \/ RunThreadsCreateCurl
  \/ CurlCheck
  \/ CurlExit
  \/ CurlFetch

Spec == Init /\ [][Next]_vars

MainThread ==
  \/ InsertApply
  \/ InsertFlush
  \/ InsertLastFlush
  \/ InsertLastWait
  \/ RunThreadsCreateUpdate
  \/ RunThreadsCreateScan
  \/ RunThreadsCreateCurl
  \/ CountDown
  \/ Join

UpdateThread ==
  \/ UpdateIterate
  \/ UpdateExit
  \/ UpdateApply
  \/ UpdateFlush
  \/ UpdateLastFlush
  \/ UpdateLastWait

ScanThread ==
  \/ ScanOpen
  \/ ScanExit
  \/ ScanNextBatch
  \/ ScanEnd

CurlThread ==
  \/ CurlCheck
  \/ CurlExit
  \/ CurlFetch

\* Every runnable thread runs, the sleep of RunThreads ends, FetchURL returns,
\* and the server answers every flush it was sent.
FairSpec ==
  /\ Spec
  /\ WF_vars(MainThread)
  /\ WF_vars(UpdateThread)
  /\ WF_vars(ScanThread)
  /\ WF_vars(CurlThread)
  /\ WF_vars(FlushExecutor)

\* The scenario of the design document, section 8: keys 0..999 inserted through
\* one session with a flush cadence of 100.
InitScenario ==
  /\ InitState(1000, 100)
  /\ InitAsync
  /\ InitStore

NextScenario ==
  \/ InsertApply
  \/ InsertFlush
  \/ InsertLastFlush
  \/ InsertLastWait
  \/ FlushExecutor

SpecScenario == InitScenario /\ [][NextScenario]_vars

\* The initialiser on its own: the owner, the background thread and the callers.
InitBootstrap ==
  /\ InitState(0, 1)
  /\ InitAsync
  /\ InitStore

NextBootstrap ==
  \/ ShutdownCall
  \/ \E c \in Callers : get_client_future(c)
  \/ \E c \in Callers : client(c)
  \/ \E c \in Callers : clientReturn(c)
  \/ InitClient
  \/ DestructorBegin
  \/ DestructorJoin

SpecBootstrap == InitBootstrap /\ [][NextBootstrap]_vars

\* Build always returns (the builder has an rpc timeout), a runnable thread runs.
FairBootstrap ==
  /\ SpecBootstrap
  /\ WF_vars(InitClient)
  /\ WF_vars(DestructorJoin)
  /\ \A c \in Callers : WF_vars(clientReturn(c))

\* The storage engine on its own: rows reach the Base Store, updates are
\* appended as Delta Units, compaction folds the oldest units in.
InitCompaction ==
  /\ InitState(0, 1)
  /\ InitAsync
  /\ InitStore

NextCompaction ==
  \/ \E k \in StoreKeys : MemStoreFlush(k)
  \/ \E shape \in UnitShapes : AppendDeltaUnit(shape)
  \/ \E n \in 1 .. MaxDeltaUnits : Compact(n)

SpecCompaction == InitCompaction /\ [][NextCompaction]_vars

\* ================================================================ claims
Outstanding(w) == {f \in inflight : f.w = w}

\* C1: a session has at most one flush outstanding, and FlushAsync number N+1
\* is issued only after a Wait on the synchronizer has observed the completion
\* signal of flush number N.
C1_AtMostOneFlushOutstanding ==
  \A w \in Writers :
    /\ Cardinality(Outstanding(w)) <= 1
    /\ issued[w] <= observed[w] + 1

\* A second or later flush is outstanding while the next batch is filling.
C1_Witness ==
  \E w \in Writers :
    /\ issued[w] >= 2
    /\ Outstanding(w) # {}
    /\ session[w] # <<>>

InsertRunning == main_pc \in {"ins_loop", "ins_flush", "ins_last_wait"}
InsertReturned == main_pc \notin {"ins_loop", "ins_flush", "ins_last_wait"}
UpdateRunning == upd_pc \in {"iter", "loop", "flush", "last_wait"}
UpdateEnded == upd_pc \in {"done", "aborted"}

\* C2 as claimed, stated on finite runs: a writer never gives up its loop, also
\* when a flush has completed with a failure status.
C2_WriterNeverGivesUp ==
  /\ main_pc # "ins_failed"
  /\ upd_pc # "aborted"

\* C2 as amended: while every flush is answered, no writer stays blocked in
\* Wait: InsertBaseData returns and UpdateRows ends, and a writer leaves its
\* loop early only with the failure status a Wait has returned.
C2_WriterProgress ==
  /\ InsertRunning ~> InsertReturned
  /\ UpdateRunning ~> UpdateEnded
  /\ [](main_pc = "ins_failed" => ret["insert"] # "OK")
  /\ [](upd_pc = "aborted" => ret["update"] # "OK")
  /\ [](main_pc = "ins_done" => ins_key = FLAGS_row_count /\ ret["insert"] = "OK")

\* A writer has waited on a flush that failed and has left its loop.
C2_Witness ==
  /\ upd_pc = "aborted"
  /\ ret["update"] = "IOError"
  /\ issued["update"] >= 2

InClient(c) == caller_pc[c] \in {"blocked", "fetching"}
ShutdownPending == shutdown_pending # "no"
Cancelled == Failed("Cancelled")

C4_ResolvedAtMostOnce ==
  /\ [](resolutions <= 1)
  /\ [](resolutions = 0 <=> client_future_ = Pending)
  /\ [][client_future_ # Pending => client_future_' = client_future_]_vars

\* The future was resolved, and after that Shutdown, client(),
\* get_client_future() and the destructor have all run.
C4_Witness ==
  /\ client_future_.state = "ready"
  /\ shutdown_pending = "no"
  /\ stopping_
  /\ owner_pc = "destroyed"
  /\ \E c \in Callers : caller_pc[c] = "returned" /\ got_future[c]

\* C5: when Shutdown() has run while construction was pending and construction
\* does not succeed afterwards, the retry loop exits at its next check of the
\* stop flag and the future is resolved with Cancelled: every thread blocked in
\* client(), and every later caller, returns Cancelled and none waits forever.
C5_ShutdownCancels ==
  /\ []((ShutdownPending /\ init_pc = "exited" /\ client_future_.state # "ready")
          => client_future_ = Cancelled)
  /\ []((ShutdownPending /\ client_future_.state # "ready")
          => returned \subseteq {Cancelled})
  /\ [][(ShutdownPending /\ init_pc = "check") => init_pc' \in {"check", "exited"}]_vars
  /\ ShutdownPending ~> (client_future_ # Pending)
  /\ \A c \in Callers : (ShutdownPending /\ InClient(c)) ~> ~InClient(c)

\* A thread was blocked in client() when Shutdown() ran during an attempt, and
\* has returned Cancelled.
C5_Witness ==
  /\ shutdown_pending = "Shutdown"
  /\ attempts >= 1
  /\ returned = {Cancelled}
  /\ \E c \in Callers : caller_pc[c] = "woken"

\* C6: a destructor that starts while construction is pending returns, and
\* returns only once the background thread has seen the stop flag and has been
\* joined; the thread takes no step after the destructor has returned.
C6_DestructorJoins ==
  /\ [](owner_pc = "destroyed" => init_pc = "exited")
  /\ (owner_pc = "joining") ~> (owner_pc = "destroyed")
  /\ [][owner_pc = "destroyed"
          => UNCHANGED <<init_pc, attempts, client_future_, resolutions>>]_vars

\* The destructor found construction pending, mid-attempt, and has returned.
C6_Witness ==
  /\ owner_pc = "destroyed"
  /\ shutdown_pending = "destructor"
  /\ attempts >= 1
  /\ client_future_ = Cancelled

\* C7 as claimed: the scenario run issues exactly 10 flushes, each only after
\* the previous one has been waited on.
C7_TenFlushes ==
  /\ main_pc = "ins_done" => issued["insert"] = 10
  /\ issued["insert"] <= observed["insert"] + 1

\* C7 as amended: the scenario run issues exactly 11 flushes, one after the
\* Apply of each key 0, 100, .. 900 and one after the loop, each only after the
\* previous one has been waited on.
C7_ElevenFlushes ==
  /\ main_pc = "ins_done" => issued["insert"] = 11
  /\ (main_pc = "ins_flush" /\ ins_key % 100 # 0) => issued["insert"] = (ins_key \div 100) + 1
  /\ issued["insert"] <= observed["insert"] + 1
  /\ Cardinality(Outstanding("insert")) <= 1

\* InsertBaseData has returned OK from the scenario run.
C7_Witness ==
  /\ main_pc = "ins_done"
  /\ FLAGS_row_count = 1000
  /\ kSessionBatchSize = 100
  /\ issued["insert"] = 11
  /\ observed["insert"] = 11

\* C8: when InsertBaseData returns OK, every key 0..row_count-1 has been handed
\* to exactly one flushed batch, every issued flush has been acknowledged and
\* waited on, nothing is buffered or outstanding, and a Scanner opened now
\* returns exactly row_count distinct keys with the inserted value.
C8_InsertComplete ==
  main_pc = "ins_done" =>
    /\ \A k \in Keys : handed[k] = 1
    /\ session["insert"] = <<>>
    /\ Outstanding("insert") = {}
    /\ observed["insert"] = issued["insert"]
    /\ FullScan(Open) = {[key |-> k, val |-> 0] : k \in Keys}
    /\ Cardinality(FullScan(Open)) = FLAGS_row_count

\* InsertBaseData has returned OK after several batches.
C8_Witness ==
  /\ main_pc = "ins_done"
  /\ FLAGS_row_count >= 3
  /\ issued["insert"] >= 3

C10_SnapshotIsolation ==
  \A r \in rows : r.val <= scanner.seen[r.key]

\* A batch was fetched after the flush of an Update applied since Open had
\* been acknowledged for one of its keys.
C10_Witness ==
  /\ stale
  /\ rows # {}
  /\ \E r \in rows : tablet[r.key] > scanner.seen[r.key]

C12_FirstWaitReturnsAtOnce ==
  /\ (main_pc = "ins_flush" /\ ins_key = 0) =>
       /\ WaitReturns(last_s["insert"])
       /\ last_s["insert"].s = "OK"
       /\ issued["insert"] = 0
       /\ ENABLED InsertFlush
  /\ (upd_pc = "flush" /\ upd_key = 0) =>
       /\ WaitReturns(last_s["update"])
       /\ last_s["update"].s = "OK"
       /\ Outstanding("update") = {}
       /\ sig["update"] = issued["update"]
       /\ ENABLED UpdateFlush

\* The second pass of UpdateRows is at its first call, after the flushes of the
\* first pass.
C12_Witness ==
  /\ upd_pc = "flush"
  /\ upd_key = 0
  /\ iteration = 2
  /\ issued["update"] >= 2
  /\ last_s["update"].resets >= 3

InsertInLoop == main_pc \in {"ins_loop", "ins_flush"}
UpdateInLoop == upd_pc \in {"loop", "flush"}
LastKey(f) == f.ops[Len(f.ops)].row.key

\* C13 as claimed: the n-th flush issued inside the write loop is issued when
\* exactly n*K mutations have been applied, and every batch flushed inside the
\* loop carries exactly K mutations.
C13_FlushEveryKApplied ==
  /\ main_pc = "ins_loop" => issued["insert"] = ins_key \div kSessionBatchSize
  /\ InsertInLoop => \A f \in Outstanding("insert") :
       /\ Len(f.ops) = kSessionBatchSize
       /\ LastKey(f) + 1 = f.n * kSessionBatchSize
  /\ UpdateInLoop => \A f \in Outstanding("update") :
       Len(f.ops) = kSessionBatchSize

\* C13 as amended: the write loop waits and flushes after the Apply of each key
\* that is a multiple of K: the n-th flush issued inside the loop is issued
\* when exactly (n-1)*K + 1 mutations have been applied, so the first batch
\* carries the single mutation of key 0 and every later batch flushed inside
\* the loop carries exactly K mutations.
C13_FlushAfterEveryKthKey ==
  /\ main_pc = "ins_loop" =>
       issued["insert"] = (ins_key + kSessionBatchSize - 1) \div kSessionBatchSize
  /\ InsertInLoop => \A f \in Outstanding("insert") :
       /\ Len(f.ops) = IF f.n = 1 THEN 1 ELSE kSessionBatchSize
       /\ LastKey(f) + 1 = (f.n - 1) * kSessionBatchSize + 1
  /\ UpdateInLoop => \A f \in Outstanding("update") :
       /\ Len(f.ops) = IF LastKey(f) = 0 THEN 1 ELSE kSessionBatchSize
       /\ LastKey(f) % kSessionBatchSize = 0

\* With K = 2, the first flush of the loop took one mutation and the second
\* flush, now outstanding, took two.
C13_Witness ==
  /\ kSessionBatchSize = 2
  /\ main_pc = "ins_loop"
  /\ \E f \in Outstanding("insert") : f.n = 2 /\ Len(f.ops) = 2 /\ LastKey(f) = 2

\* C14: a session driven by InsertBaseData or UpdateRows never has more than
\* two batches, the one draining in its outstanding flush and the one filling
\* in the session, and neither holds more than kSessionBatchSize mutations.
C14_TwoBoundedBatches ==
  \A w \in Writers :
    /\ Cardinality(Outstanding(w)) <= 1
    /\ Len(session[w]) <= kSessionBatchSize
    /\ \A f \in Outstanding(w) : Len(f.ops) <= kSessionBatchSize

\* With K = 2, the session of UpdateRows is full while its previous batch is
\* still draining.
C14_Witness ==
  /\ kSessionBatchSize = 2
  /\ Len(session["update"]) = 2
  /\ \E f \in Outstanding("update") : f.ops # <<>>

ResetStep(w) == last_s'[w].resets # last_s[w].resets

\* C15: the synchronizer of a write loop is resolved exactly once between two
\* consecutive Resets: it is never resolved a second time before the next
\* Reset, every Reset finds it resolved once, and every flush issued is either
\* still outstanding or has run the callback, in the order of issue.
C15_ResolvedOncePerReset ==
  /\ [](\A w \in Writers : last_s[w].runs <= 1)
  /\ [](\A w \in Writers : last_s[w].runs = 1 <=> last_s[w].count = 0)
  /\ [][\A w \in Writers : ResetStep(w) => last_s[w].runs = 1]_vars
  /\ [](\A w \in Writers : issued[w] = sig[w] + Cardinality(Outstanding(w)))

\* In its second pass UpdateRows has reset the synchronizer after the priming
\* run and the flush issued then has resolved it again.
C15_Witness ==
  /\ iteration = 2
  /\ upd_pc = "loop"
  /\ last_s["update"].runs = 1
  /\ last_s["update"].resets >= 4
  /\ sig["update"] = issued["update"]

\* C16: Shutdown() only sets the stop flag. It can always run to its end, it
\* leaves the future, the construction attempt in progress, the background
\* thread and the callers as they are, the flag never goes back to false, and
\* a Shutdown() with the flag already up changes nothing.
C16_ShutdownOnlySetsFlag ==
  /\ [](owner_pc = "alive" => ENABLED ShutdownCall)
  /\ [][stopping_ => stopping_']_vars
  /\ [][ShutdownCall =>
          /\ stopping_'
          /\ UNCHANGED <<client_future_, resolutions, init_pc, attempts, owner_pc,
                         caller_pc, got_future, returned>>]_vars
  /\ [][(ShutdownCall /\ stopping_) => UNCHANGED vars]_vars
  /\ [][stopping_' # stopping_ =>
          UNCHANGED <<client_future_, resolutions, init_pc, attempts, caller_pc>>]_vars

\* Shutdown() has run during a construction attempt: the attempt is still in
\* progress, the future is still pending and a caller is still blocked.
C16_Witness ==
  /\ stopping_
  /\ shutdown_pending = "Shutdown"
  /\ owner_pc = "alive"
  /\ init_pc = "build"
  /\ client_future_ = Pending
  /\ \E c \in Callers : caller_pc[c] = "blocked"

\* C17: only client() blocks on construction. The constructor leaves the
\* future pending and the owner and its callers free to run;
\* get_client_future() can return while construction is pending, every call
\* returns a future of the one shared state, and neither get_client_future()
\* nor client() touches the background task, the future or the stop flag.
C17_OnlyClientBlocks ==
  /\ (owner_pc = "alive" /\ client_future_ = Pending
        /\ \A c \in Callers : caller_pc[c] = "idle")
  /\ [](\A c \in Callers :
          (owner_pc = "alive" /\ ~got_future[c]) => ENABLED get_client_future(c))
  /\ [](futures \subseteq {SharedState})
  /\ [](\A c \in Callers : got_future[c] => futures = {SharedState})
  /\ [][got_future' # got_future =>
          UNCHANGED <<stopping_, client_future_, resolutions, init_pc, attempts,
                      owner_pc, caller_pc, returned>>]_vars
  /\ [][caller_pc' # caller_pc =>
          UNCHANGED <<stopping_, client_future_, resolutions, init_pc, attempts,
                      owner_pc, got_future, futures>>]_vars

\* While the first construction attempt is in progress every caller has got
\* the future, one of them is blocked in client() and another runs on.
C17_Witness ==
  /\ client_future_ = Pending
  /\ init_pc = "build"
  /\ attempts = 1
  /\ \A c \in Callers : got_future[c]
  /\ futures = {SharedState}
  /\ \E c \in Callers : caller_pc[c] = "blocked"
  /\ \E c \in Callers : caller_pc[c] = "idle"

\* The steps in which a call of WaitForLastBatchAndFlush returns.
InsertCallReturns == main_pc = "ins_flush" /\ main_pc' # "ins_flush"
InsertLastCallReturns == main_pc = "ins_loop" /\ main_pc' \in {"ins_last_wait", "ins_failed"}
UpdateCallReturns == upd_pc = "flush" /\ upd_pc' # "flush"
UpdateLastCallReturns == upd_pc = "loop" /\ upd_pc' \in {"last_wait", "aborted"}

\* What the call of writer w with key leaves when the previous flush failed or
\* the key is not a multiple of K.
NoFlushCase(w, key) ==
  IF key % kSessionBatchSize # 0
  THEN /\ ret'[w] = "OK"
       /\ UNCHANGED <<last_s, session, inflight, issued, observed>>
  ELSE last_s[w].s # "OK" =>
         /\ ret'[w] = last_s[w].s
         /\ UNCHANGED <<last_s, session, inflight, issued>>

\* C18: called with a key that is a multiple of K after the previous flush has
\* resolved the synchronizer with a failure, WaitForLastBatchAndFlush returns
\* that status without a Reset and without a FlushAsync, so what is buffered
\* stays buffered and the caller stops; called with any other key it returns OK
\* and changes nothing.
C18_FailedFlushNotRetried ==
  /\ [][InsertCallReturns => NoFlushCase("insert", ins_key)]_vars
  /\ [][InsertLastCallReturns => NoFlushCase("insert", kSessionBatchSize)]_vars
  /\ [][UpdateCallReturns => NoFlushCase("update", upd_key)]_vars
  /\ [][UpdateLastCallReturns => NoFlushCase("update", kSessionBatchSize)]_vars
  /\ [](main_pc = "ins_failed" =>
          /\ ret["insert"] # "OK"
          /\ last_s["insert"].count = 0
          /\ Outstanding("insert") = {}
          /\ (ins_key < FLAGS_row_count => session["insert"] # <<>>))
  /\ [](upd_pc = "aborted" =>
          /\ ret["update"] # "OK"
          /\ last_s["update"].count = 0
          /\ Outstanding("update") = {})

\* With K = 2 the flush of key 0 has failed: the call at key 2 has returned the
\* failure and the mutations of keys 1 and 2 are still buffered.
C18_Witness ==
  /\ kSessionBatchSize = 2
  /\ main_pc = "ins_failed"
  /\ ret["insert"] = "IOError"
  /\ ins_key = 2
  /\ Len(session["insert"]) = 2
  /\ issued["insert"] = 1
  /\ last_s["insert"].count = 0

\* Writer w is about to call Wait on its synchronizer.
AtWait(w) ==
  IF w = "insert"
  THEN \/ main_pc = "ins_flush" /\ ins_key % kSessionBatchSize = 0
       \/ main_pc = "ins_loop" /\ ~(ins_key < FLAGS_row_count)
       \/ main_pc = "ins_last_wait"
  ELSE \/ upd_pc = "flush" /\ upd_key % kSessionBatchSize = 0
       \/ upd_pc = "loop" /\ ~(upd_key < FLAGS_row_count /\ stop_latch > 0)
       \/ upd_pc = "last_wait"

\* C19: the synchronizer of a write loop is reset only in the step of a Wait
\* on it that has returned OK, so never while a flush is outstanding and never
\* before a Wait has observed the last completion signal; a FlushAsync is
\* issued only together with such a Reset and is then the one flush that will
\* resolve the synchronizer; and whenever Wait is called the synchronizer is
\* already resolved or exactly one flush is outstanding.
C19_ResetOnlyAfterWait ==
  /\ [][\A w \in Writers : ResetStep(w) =>
          /\ WaitReturns(last_s[w])
          /\ last_s[w].s = "OK"
          /\ Outstanding(w) = {}
          /\ observed'[w] = sig[w]
          /\ last_s'[w].count = 1]_vars
  /\ [][\A w \in Writers : issued'[w] # issued[w] =>
          /\ ResetStep(w)
          /\ Cardinality({f \in inflight' : f.w = w}) = 1]_vars
  /\ [](\A w \in Writers : AtWait(w) =>
          \/ last_s[w].count = 0 /\ Outstanding(w) = {}
          \/ last_s[w].count = 1 /\ Cardinality(Outstanding(w)) = 1)

\* In its second pass UpdateRows is about to wait on a flush that is still
\* outstanding.
C19_Witness ==
  /\ iteration = 2
  /\ upd_pc = "flush"
  /\ upd_key > 0
  /\ upd_key % kSessionBatchSize = 0
  /\ last_s["update"].count = 1
  /\ Cardinality(Outstanding("update")) = 1

ScanRunning == scan_pc \in {"check", "more"}
CurlRunning == curl_pc \in {"check", "fetch"}

====
